---- MODULE Spec2Model ----
(***************************************************************************)
(* Model of the pop-up book site's navigation controller, transition       *)
(* driver and render loop (src/main.js, the richer implementation at       *)
(* lines 1-915).                                                           *)
(*                                                                         *)
(* Numbers: bookState.value, bookState.target and currentParallaxWeight    *)
(* are fixed-point integers with One standing for 1.0; teamBeeOpacity is   *)
(* counted in hundredths.  Timeouts are kept in arming order; a timeout    *)
(* may fire only when no timeout armed before it has a delay that is       *)
(* shorter or equal (the event loop runs timers in deadline order).        *)
(***************************************************************************)
EXTENDS Integers, Sequences, FiniteSets, TLC

\* ---------------------------------------------------------------- bounds
MaxCalls == 4
MaxFrames == 3
SampleGrid == 50
MaxSteps == 205
MaxAsks == 2
MaxNavCalls == 1
MaxAiFrames == 1
MaxClicks == 2
MaxReadings == 3

\* ------------------------------------------------------------- constants
One == 100000000
CloseRate == 10
OpenRate == 5
ParallaxRate == 5
RateDen == 100
BeeFadeStep == 1
BeeFadeFull == 100
ResumeDelay == 500
OpacityDelay == 800
TeamBeeDelay == 2000
ContentPhaseMin == 60000000
ClosePhaseMin == 20000000
HingeClosed == 157000000
HingeClosedCenti == 157
BookScaleFull == 140000000
BookScaleTenths == 14
\* gyroX, gyroY are in hundredths: 0.05 per degree, clamped to [-3, 3]
GyroDamp == 5
GyroLimit == 300
\* the null of an orientation reading or of an unset baseline; readings are
\* whole degrees, gamma in [-90, 90] and beta in [-180, 180]
Null == -1000

\* Element ids of the page sections, and the pageId arguments tried.
Sections == {"home-page", "hive", "species", "team"}
PageIds == {"home", "hive", "team", "bogus"}

VARIABLES
    active,                \* set of section ids carrying the class "active"
    bookState,             \* [value, target]
    teamBeeGroup,          \* [visible]
    teamBeeTimer,          \* 0 (null) or the handle of the last armed timeout
    teamBeeOpacity,
    currentParallaxWeight,
    canvasOpacity,         \* canvas-container style.opacity
    chrome,                \* header / nav-container styling: "home" or "solid"
    navHighlight,          \* set of nav links carrying the highlight class
    timers,                \* pending timeouts, in arming order
    nextHandle,            \* next timeout handle
    calls,                 \* number of switchPage calls so far
    frames,                \* number of render frames so far
    scene,                 \* [contentScale, bookRotation, currentBookScale]
    apiKey,                \* localStorage gemini_api_key, "" when absent
    hiveInput,             \* value of the hive-input box
    hiveDom,               \* hive-loading / hive-placeholder / hive-output
    speciesDom,            \* species-loading / species-content
    inFlight,              \* requests in flight, per caller of callGemini
    fetches,               \* number of fetch calls issued so far
    asks,                  \* number of AI feature invocations so far
    clickListener,         \* initOps is registered for click on document
    permission,            \* DeviceOrientationEvent.requestPermission():
                           \* "none", "pending", "granted", "denied", "rejected"
    listening,             \* handleOrientation is registered
    initialGamma,
    initialBeta,
    gyroX,
    gyroY,
    platform,              \* "ios": requestPermission exists; "other": not
    permissionCalls,       \* number of requestMotionPermission() calls so far
    clicks,                \* number of clicks so far
    readings,              \* number of deviceorientation events handled
    firstReading,          \* [gamma, beta] of the first event handled
    reading,               \* [gamma, beta] of the last event handled
    geminiCall,            \* last completed callGemini: response and result
    last                   \* the handler that ran last, with its argument

vars == <<active, bookState, teamBeeGroup, teamBeeTimer, teamBeeOpacity,
          currentParallaxWeight, canvasOpacity, chrome, navHighlight,
          timers, nextHandle, calls, frames, scene, apiKey, hiveInput,
          hiveDom, speciesDom, inFlight, fetches, asks, geminiCall,
          clickListener, permission, listening, initialGamma, initialBeta,
          gyroX, gyroY, platform, permissionCalls, clicks, readings,
          firstReading, reading, last>>

navVars == <<active, bookState, teamBeeGroup, teamBeeTimer, teamBeeOpacity,
             currentParallaxWeight, canvasOpacity, chrome, navHighlight,
             timers, nextHandle, calls, frames, scene>>

aiVars == <<apiKey, hiveInput, hiveDom, speciesDom, inFlight, fetches, asks,
            geminiCall>>

gyroVars == <<clickListener, permission, listening, initialGamma, initialBeta,
              gyroX, gyroY, platform, permissionCalls, clicks, readings,
              firstReading, reading>>

\* ----------------------------------------------------------------- helpers
\* document.getElementById(isHome ? 'home-page' : pageId)
TargetId(pageId) == IF pageId = "home" THEN "home-page" ELSE pageId

\* the sequence s without its i-th element
RemoveAt(s, i) == [k \in 1..(Len(s) - 1) |-> IF k < i THEN s[k] ELSE s[k + 1]]

\* the pending timeouts s without the one whose handle is h
RECURSIVE Without(_, _)
Without(s, h) ==
    IF s = <<>> THEN <<>>
    ELSE IF Head(s).handle = h THEN Without(Tail(s), h)
         ELSE <<Head(s)>> \o Without(Tail(s), h)

\* variant: the handle is never cleared
clearTimeoutIgnored(s, h) == s

\* clearTimeout(handle): a stale or unknown handle is ignored
clearTimeout(s, h) == Without(s, h)

\* the i-th pending timeout is the next one of its deadline class to run
CanFire(i) == \A j \in 1..(i - 1) : timers[j].delay > timers[i].delay

\* variant: the increment is subtracted instead of added
LerpSignSlip(value, target) ==
    IF target < value
    THEN value + (((value - target) * CloseRate) \div RateDen)
    ELSE value - (((target - value) * OpenRate) \div RateDen)

\* variant: the two rates are swapped
LerpSwapped(value, target) ==
    IF target < value
    THEN value - (((value - target) * OpenRate) \div RateDen)
    ELSE value + (((target - value) * CloseRate) \div RateDen)

\* variant: both rates are a tenth of what they should be
LerpTenthRate(value, target) ==
    IF target < value
    THEN value - (((value - target) * CloseRate) \div (RateDen * 10))
    ELSE value + (((target - value) * OpenRate) \div (RateDen * 10))

\* bookState.value += (target - value) * lerpSpeed
Lerp(value, target) ==
    IF target < value
    THEN value - (((value - target) * CloseRate) \div RateDen)
    ELSE value + (((target - value) * OpenRate) \div RateDen)

\* currentParallaxWeight += (targetWeight - currentParallaxWeight) * 0.05
LerpWeight(w, targetWeight) ==
    IF targetWeight < w
    THEN w - (((w - targetWeight) * ParallaxRate) \div RateDen)
    ELSE w + (((targetWeight - w) * ParallaxRate) \div RateDen)

\* the three animation phases of animate, each a linear remap of value;
\* x / 0.4 is computed as (x * 10) \div 4 and x / 0.2 as x * 5
ContentPhase(value) ==
    [contentScale |-> ((value - ContentPhaseMin) * 10) \div 4,
     bookRotation |-> 0,
     currentBookScale |-> BookScaleFull]

\* variant: the hinge angle grows with value instead of shrinking
ClosePhaseNotInverted(value) ==
    LET pct == ((value - ClosePhaseMin) * 10) \div 4
    IN  [contentScale |-> 0,
         bookRotation |-> (pct \div 100) * HingeClosedCenti,
         currentBookScale |-> BookScaleFull]

\* variant: the book already shrinks while it closes
ClosePhaseShrinking(value) ==
    LET pct == ((value - ClosePhaseMin) * 10) \div 4
    IN  [contentScale |-> 0,
         bookRotation |-> ((One - pct) \div 100) * HingeClosedCenti,
         currentBookScale |-> (value \div 10) * BookScaleTenths]

ClosePhase(value) ==
    LET pct == ((value - ClosePhaseMin) * 10) \div 4
    IN  [contentScale |-> 0,
         bookRotation |-> ((One - pct) \div 100) * HingeClosedCenti,
         currentBookScale |-> BookScaleFull]

\* variant: the closed angle is pi/2 instead of 1.57
VanishPhaseHalfPi(value) ==
    LET pct == value * 5
    IN  [contentScale |-> 0,
         bookRotation |-> 157079632,
         currentBookScale |-> (pct * BookScaleTenths) \div 10]

VanishPhase(value) ==
    LET pct == value * 5
    IN  [contentScale |-> 0,
         bookRotation |-> HingeClosed,
         currentBookScale |-> (pct * BookScaleTenths) \div 10]

\* contentScale, bookRotation and currentBookScale as animate derives them
DerivedFrameParams(value) ==
    IF value > ContentPhaseMin THEN ContentPhase(value)
    ELSE IF value > ClosePhaseMin THEN ClosePhase(value)
    ELSE VanishPhase(value)

\* --------------------------------------------------------------- initially
InitialHtml == [kind |-> "initial", text |-> <<>>]
ParseErrorHtml == [kind |-> "parseError", text |-> <<>>]
NoResponse == [type |-> "none"]
NoResult == [kind |-> "none", text |-> <<>>]
Callers == {"hive", "species", "direct"}

\* The page as loaded in a fresh browser: no credential, no request.
InitAi ==
    /\ apiKey = ""
    /\ hiveInput = ""
    /\ hiveDom = [loadingHidden |-> TRUE, placeholderHidden |-> FALSE,
                  outputHidden |-> TRUE, html |-> InitialHtml]
    /\ speciesDom = [loadingHidden |-> TRUE, html |-> InitialHtml]
    /\ inFlight = [c \in Callers |-> 0]
    /\ fetches = 0
    /\ asks = 0
    /\ geminiCall = [response |-> NoResponse, result |-> NoResult]

Platforms == {"ios", "other"}

\* the input sampler before any click or reading
InitGyro ==
    /\ clickListener = TRUE
    /\ permission = "none"
    /\ listening = FALSE
    /\ initialGamma = Null
    /\ initialBeta = Null
    /\ gyroX = 0
    /\ gyroY = 0
    /\ permissionCalls = 0
    /\ clicks = 0
    /\ readings = 0
    /\ firstReading = [gamma |-> Null, beta |-> Null]
    /\ reading = [gamma |-> Null, beta |-> Null]

Init ==
    /\ active = {"home-page"}
    /\ bookState = [value |-> One, target |-> One]
    /\ teamBeeGroup = [visible |-> FALSE]
    /\ teamBeeTimer = 0
    /\ teamBeeOpacity = 0
    /\ currentParallaxWeight = One
    /\ canvasOpacity = "1"
    /\ chrome = "home"
    /\ navHighlight = {"home"}
    /\ timers = <<>>
    /\ nextHandle = 1
    /\ calls = 0
    /\ frames = 0
    /\ scene = [contentScale |-> One, bookRotation |-> 0,
                currentBookScale |-> BookScaleFull]
    /\ InitAi
    /\ InitGyro
    /\ platform = "ios"
    /\ last = [op |-> "init", pageId |-> "home"]

\* ------------------------------------------------------------- switchPage
\* variant: the call never waits
suspendsNever(currentIsHome, isHome) == FALSE

\* variant: every call for a non-home page waits, whatever page is active
suspendsAnyNonHome(currentIsHome, isHome) == ~isHome

\* step 1: the call waits 500 ms before swapping the page
suspends(currentIsHome, isHome) == currentIsHome /\ ~isHome

\* step 1: bookState.target = 0.0
closeBook(bs) == [bs EXCEPT !.target = 0]

\* variant: entering home leaves the target alone
openBookNoTarget(bs, isHome) == bs

\* variant: entering home snaps the book open
openBookSnap(bs, isHome) ==
    IF isHome THEN [bs EXCEPT !.target = One, !.value = One] ELSE bs

\* step 2: if (isHome) bookState.target = 1.0
openBook(bs, isHome) == IF isHome THEN [bs EXCEPT !.target = One] ELSE bs

\* step 3: every section loses "active", then the target section, if there
\* is one, gains it
showTarget(pageId) ==
    IF TargetId(pageId) \in Sections THEN {TargetId(pageId)} ELSE {}

\* step 5: the nav links whose onclick text includes pageId
highlightLinks(pageId) == {l \in {"home", "hive", "species", "team"} : l = pageId}

\* variant: the guard is inverted
cancelTeamBeeInverted(pending) ==
    IF teamBeeTimer = 0 THEN clearTimeout(pending, teamBeeTimer) ELSE pending

\* step 6: if (teamBeeTimer) clearTimeout(teamBeeTimer)
cancelTeamBee(pending) ==
    IF teamBeeTimer # 0 THEN clearTimeout(pending, teamBeeTimer) ELSE pending

\* variant: leaving does not hide the bees
hideTeamBeesSkipped(g) == g

\* step 6, else branch: teamBeeGroup.visible = false
hideTeamBees(g) == [g EXCEPT !.visible = FALSE]

\* Steps 2-6 of switchPage(pageId), run on the pending timeouts `pending`
\* (the caller has already taken out the timeout that resumed it, if any).
switchPageBody(pageId, pending) ==
    LET isHome == (pageId = "home")
        armed4 == IF isHome THEN pending
                  ELSE Append(pending, [handle |-> nextHandle, kind |-> "opacity",
                                        delay |-> OpacityDelay, pageId |-> pageId])
        h6 == IF isHome THEN nextHandle ELSE nextHandle + 1
        cleared == cancelTeamBee(armed4)
    IN  /\ bookState' = openBook(bookState, isHome)
        /\ active' = showTarget(pageId)
        /\ canvasOpacity' = IF isHome THEN "1" ELSE canvasOpacity
        /\ chrome' = IF isHome THEN "home" ELSE "solid"
        /\ navHighlight' = highlightLinks(pageId)
        /\ IF pageId = "team"
           THEN /\ timers' = Append(cleared, [handle |-> h6, kind |-> "teamBee",
                                              delay |-> TeamBeeDelay, pageId |-> pageId])
                /\ teamBeeTimer' = h6
                /\ nextHandle' = h6 + 1
                /\ teamBeeGroup' = teamBeeGroup
           ELSE /\ timers' = cleared
                /\ teamBeeTimer' = teamBeeTimer
                /\ nextHandle' = h6
                /\ teamBeeGroup' = hideTeamBees(teamBeeGroup)

\* A call of switchPage(pageId), up to its first suspension or its end.
switchPage(pageId) ==
    LET isHome == (pageId = "home")
        currentIsHome == ("home-page" \in active)
    IN  /\ calls < MaxCalls
        /\ calls' = calls + 1
        /\ last' = [op |-> "switchPage", pageId |-> pageId]
        /\ UNCHANGED <<teamBeeOpacity, currentParallaxWeight, frames, scene>>
        /\ UNCHANGED <<aiVars, gyroVars>>
        /\ IF suspends(currentIsHome, isHome)
           THEN /\ bookState' = closeBook(bookState)
                /\ timers' = Append(timers, [handle |-> nextHandle, kind |-> "resume",
                                             delay |-> ResumeDelay, pageId |-> pageId])
                /\ nextHandle' = nextHandle + 1
                /\ UNCHANGED <<active, teamBeeGroup, teamBeeTimer, canvasOpacity,
                               chrome, navHighlight>>
           ELSE switchPageBody(pageId, timers)

\* The continuation of a suspended switchPage call, after its 500 ms wait.
switchPageResume(i) ==
    /\ i \in 1..Len(timers)
    /\ timers[i].kind = "resume"
    /\ CanFire(i)
    /\ last' = [op |-> "resume", pageId |-> timers[i].pageId]
    /\ UNCHANGED <<teamBeeOpacity, currentParallaxWeight, frames, calls, scene>>
    /\ UNCHANGED <<aiVars, gyroVars>>
    /\ switchPageBody(timers[i].pageId, RemoveAt(timers, i))

\* The 800 ms canvas opacity timeout armed in step 4.
opacityTimeout(i) ==
    /\ i \in 1..Len(timers)
    /\ timers[i].kind = "opacity"
    /\ CanFire(i)
    /\ canvasOpacity' = IF timers[i].pageId = "team" THEN "1" ELSE "0.3"
    /\ timers' = RemoveAt(timers, i)
    /\ last' = [op |-> "opacityTimeout", pageId |-> timers[i].pageId]
    /\ UNCHANGED <<active, bookState, teamBeeGroup, teamBeeTimer, teamBeeOpacity,
                   currentParallaxWeight, chrome, navHighlight, nextHandle,
                   calls, frames, scene>>
    /\ UNCHANGED <<aiVars, gyroVars>>

\* The 2 s team bee timeout armed in step 6.
teamBeeTimeout(i) ==
    /\ i \in 1..Len(timers)
    /\ timers[i].kind = "teamBee"
    /\ CanFire(i)
    /\ IF "team" \in active
       THEN /\ teamBeeGroup' = [teamBeeGroup EXCEPT !.visible = TRUE]
            /\ canvasOpacity' = "1"
       ELSE UNCHANGED <<teamBeeGroup, canvasOpacity>>
    /\ timers' = RemoveAt(timers, i)
    /\ last' = [op |-> "teamBeeTimeout", pageId |-> timers[i].pageId]
    /\ UNCHANGED <<active, bookState, teamBeeTimer, teamBeeOpacity,
                   currentParallaxWeight, chrome, navHighlight, nextHandle,
                   calls, frames, scene>>
    /\ UNCHANGED <<aiVars, gyroVars>>

\* ---------------------------------------------------------------- animate
\* The body of animate: one render frame.
renderFrame ==
    LET isTeamPage == ("team" \in active)
        targetWeight == IF isTeamPage THEN 0 ELSE One
    IN  /\ frames' = frames + 1
        /\ currentParallaxWeight' = LerpWeight(currentParallaxWeight, targetWeight)
        /\ bookState' = [bookState EXCEPT
                           !.value = Lerp(bookState.value, bookState.target)]
        /\ scene' = DerivedFrameParams(bookState'.value)
        /\ teamBeeOpacity' =
              IF teamBeeGroup.visible
              THEN IF teamBeeOpacity < BeeFadeFull
                   THEN IF teamBeeOpacity + BeeFadeStep > BeeFadeFull
                        THEN BeeFadeFull ELSE teamBeeOpacity + BeeFadeStep
                   ELSE teamBeeOpacity
              ELSE 0
        /\ last' = [op |-> "animate", pageId |-> "home"]
        /\ UNCHANGED <<active, teamBeeGroup, teamBeeTimer, canvasOpacity, chrome,
                       navHighlight, timers, nextHandle, calls>>
        /\ UNCHANGED <<aiVars, gyroVars>>

\* One render frame, within the frame budget of the navigation model.
animate == frames < MaxFrames /\ renderFrame

\* ------------------------------------------------------------ AI features
\* Strings are sequences of tokens.  "FENCE" is the three back quotes of a
\* markdown code fence, "json" its language tag, "NL" is white space, "{obj}" the text of
\* a JSON object with the five profile fields, "null" and "42" other JSON
\* values, "prose" any text that is not JSON.
WhiteSpace == {"NL"}
JsonValues == {"{obj}", "null", "42"}

\* the bodies a 2xx answer may carry in candidates[0].content.parts[0].text
Texts ==
    {<<"FENCE", "json", "NL", "{obj}", "NL", "FENCE">>,
     <<"FENCE", "NL", "{obj}", "NL", "FENCE">>,
     <<"{obj}">>,
     <<"null">>,
     <<"42">>,
     <<"prose">>}

\* what the network may do with one request
Responses ==
    {[type |-> "networkError"]}
      \cup [type : {"http"}, status : {"403", "500"}, jsonBody : BOOLEAN]
      \cup [type : {"ok"}, body : {"notJson", "noCandidates", "noText"}]
      \cup [type : {"ok"}, body : {"text"}, text : Texts]

\* the answers of the user to prompt(): cancelled, blank, or a key
PromptEntries == {"cancel", "blank", "key"}

\* str.replace(/FENCE json/g, ''), FENCE being the three back quotes
RECURSIVE replaceJsonFence(_)
replaceJsonFence(str) ==
    IF Len(str) < 2 THEN str
    ELSE IF str[1] = "FENCE" /\ str[2] = "json"
    THEN replaceJsonFence(SubSeq(str, 3, Len(str)))
    ELSE <<Head(str)>> \o replaceJsonFence(Tail(str))

\* str.replace(/FENCE/g, '')
replaceFence(str) == SelectSeq(str, LAMBDA t : t # "FENCE")

\* str.trim()
RECURSIVE trim(_)
trim(str) ==
    IF str = <<>> THEN str
    ELSE IF Head(str) \in WhiteSpace THEN trim(Tail(str))
    ELSE IF str[Len(str)] \in WhiteSpace THEN trim(SubSeq(str, 1, Len(str) - 1))
    ELSE str

\* jsonStr.replace(/FENCE json/g, '').replace(/FENCE/g, '').trim()
stripFences(str) == trim(replaceFence(replaceJsonFence(str)))

\* JSON.parse: the value, or "SyntaxError"
jsonParse(str) ==
    LET body == SelectSeq(str, LAMBDA t : t \notin WhiteSpace)
    IN  IF Len(body) = 1 /\ body[1] \in JsonValues THEN body[1]
        ELSE "SyntaxError"

\* marked.parse(text)
markedParse(str) == [kind |-> "markdown", text |-> str]

\* manageApiKey(): the stored key after the prompt was answered with entry
manageApiKeyStore(key, entry) ==
    IF entry = "cancel" THEN key
    ELSE IF entry = "blank" THEN ""
    ELSE "k"

\* variant: a declined dialog counts as a configured key
checkApiKeyAlwaysOk(key, proceed, entry) ==
    IF key = ""
    THEN IF proceed
         THEN [key |-> manageApiKeyStore(key, entry),
               ok |-> manageApiKeyStore(key, entry) # ""]
         ELSE [key |-> key, ok |-> TRUE]
    ELSE [key |-> key, ok |-> TRUE]

\* checkApiKey(): the stored key afterwards and the value returned
checkApiKey(key, proceed, entry) ==
    IF key = ""
    THEN IF proceed
         THEN [key |-> manageApiKeyStore(key, entry),
               ok |-> manageApiKeyStore(key, entry) # ""]
         ELSE [key |-> key, ok |-> FALSE]
    ELSE [key |-> key, ok |-> TRUE]

NotConfigured == [kind |-> "notConfigured", text |-> <<"set-key-first">>]

\* callGemini up to its fetch: the stored key afterwards, whether the
\* request is sent, and the value returned when it is not
callGeminiStart(key, proceed, entry) ==
    LET c == IF key = "" THEN checkApiKey(key, proceed, entry)
             ELSE [key |-> key, ok |-> TRUE]
    IN  [key |-> c.key, sent |-> c.ok, result |-> NotConfigured]

\* variant: a failure while reading an error body escapes the handler
callGeminiFinishUncaught(r) ==
    IF r.type = "networkError"
    THEN [kind |-> "error", text |-> <<"Failed to fetch">>]
    ELSE IF r.type = "http"
    THEN IF r.jsonBody THEN [kind |-> "error", text |-> <<"API Error", r.status>>]
         ELSE [kind |-> "raised", text |-> <<"SyntaxError">>]
    ELSE IF r.body = "notJson" THEN [kind |-> "error", text |-> <<"SyntaxError">>]
    ELSE IF r.body = "noCandidates" THEN [kind |-> "error", text |-> <<"TypeError">>]
    ELSE IF r.body = "noText" THEN [kind |-> "undefined", text |-> <<>>]
    ELSE [kind |-> "text", text |-> r.text]

\* callGemini from the answer of fetch to its return: try { ... } catch
\* turns every failure into the error string
callGeminiFinish(r) ==
    IF r.type = "networkError"
    THEN [kind |-> "error", text |-> <<"Failed to fetch">>]
    ELSE IF r.type = "http"
    THEN IF r.jsonBody THEN [kind |-> "error", text |-> <<"API Error", r.status>>]
         ELSE [kind |-> "error", text |-> <<"SyntaxError">>]
    ELSE IF r.body = "notJson" THEN [kind |-> "error", text |-> <<"SyntaxError">>]
    ELSE IF r.body = "noCandidates" THEN [kind |-> "error", text |-> <<"TypeError">>]
    ELSE IF r.body = "noText" THEN [kind |-> "undefined", text |-> <<>>]
    ELSE [kind |-> "text", text |-> r.text]

\* The API key button: manageApiKey().
manageApiKey(entry) ==
    /\ apiKey' = manageApiKeyStore(apiKey, entry)
    /\ last' = [op |-> "manageApiKey", pageId |-> entry]
    /\ UNCHANGED <<hiveInput, hiveDom, speciesDom, inFlight, fetches, asks,
                   geminiCall>>
    /\ UNCHANGED <<navVars, gyroVars>>

\* askHiveMind() with query typed in the box, up to its await.
askHiveMind(query, proceed, entry) ==
    LET c == IF apiKey = "" THEN checkApiKey(apiKey, proceed, entry)
             ELSE [key |-> apiKey, ok |-> TRUE]
        g == callGeminiStart(c.key, proceed, entry)
    IN  /\ asks < MaxAsks
        /\ asks' = asks + 1
        /\ last' = [op |-> "askHiveMind", pageId |-> "hive"]
        /\ UNCHANGED <<speciesDom, geminiCall>>
        /\ UNCHANGED <<navVars, gyroVars>>
        /\ IF query = ""
           THEN /\ hiveInput' = query
                /\ UNCHANGED <<apiKey, hiveDom, inFlight, fetches>>
           ELSE IF ~c.ok
           THEN /\ apiKey' = c.key
                /\ hiveInput' = query
                /\ UNCHANGED <<hiveDom, inFlight, fetches>>
           ELSE IF g.sent
           THEN /\ apiKey' = g.key
                /\ hiveInput' = query
                /\ hiveDom' = [hiveDom EXCEPT !.loadingHidden = FALSE,
                                              !.placeholderHidden = TRUE,
                                              !.outputHidden = TRUE]
                /\ inFlight' = [inFlight EXCEPT !["hive"] = @ + 1]
                /\ fetches' = fetches + 1
           ELSE \* callGemini returns its message without a request
                /\ apiKey' = g.key
                /\ hiveInput' = ""
                /\ hiveDom' = [loadingHidden |-> TRUE,
                               placeholderHidden |-> TRUE,
                               outputHidden |-> FALSE,
                               html |-> markedParse(g.result.text)]
                /\ UNCHANGED <<inFlight, fetches>>

\* The rest of askHiveMind() once callGemini has returned.
hiveResolveDom(r) ==
    LET responseText == callGeminiFinish(r)
    IN  /\ inFlight["hive"] > 0
        /\ inFlight' = [inFlight EXCEPT !["hive"] = @ - 1]
        /\ geminiCall' = [response |-> r, result |-> responseText]
        /\ last' = [op |-> "hiveResolve", pageId |-> "hive"]
        /\ IF responseText.kind = "undefined"
           THEN \* marked.parse(undefined) throws: the handler stops there
                /\ hiveDom' = [hiveDom EXCEPT !.loadingHidden = TRUE,
                                              !.outputHidden = FALSE]
                /\ UNCHANGED hiveInput
           ELSE /\ hiveDom' = [hiveDom EXCEPT
                                  !.loadingHidden = TRUE,
                                  !.outputHidden = FALSE,
                                  !.html = markedParse(responseText.text)]
                /\ hiveInput' = ""
        /\ UNCHANGED <<apiKey, speciesDom, fetches, asks>>

\* variant: showing the answer also brings the hive page back
hiveResolveShowsPage(r) ==
    /\ hiveResolveDom(r)
    /\ active' = {"hive"}
    /\ UNCHANGED <<bookState, teamBeeGroup, teamBeeTimer, teamBeeOpacity,
                   currentParallaxWeight, canvasOpacity, chrome, navHighlight,
                   timers, nextHandle, calls, frames, scene>>
    /\ UNCHANGED gyroVars

hiveResolve(r) == hiveResolveDom(r) /\ UNCHANGED <<navVars, gyroVars>>

\* generateSpeciesProfile(), up to its await.
generateSpeciesProfile(proceed, entry) ==
    LET c == IF apiKey = "" THEN checkApiKey(apiKey, proceed, entry)
             ELSE [key |-> apiKey, ok |-> TRUE]
        g == callGeminiStart(c.key, proceed, entry)
    IN  /\ asks < MaxAsks
        /\ asks' = asks + 1
        /\ last' = [op |-> "generateSpeciesProfile", pageId |-> "species"]
        /\ UNCHANGED <<hiveInput, hiveDom, geminiCall>>
        /\ UNCHANGED <<navVars, gyroVars>>
        /\ IF ~c.ok
           THEN /\ apiKey' = c.key
                /\ UNCHANGED <<speciesDom, inFlight, fetches>>
           ELSE IF g.sent
           THEN /\ apiKey' = g.key
                /\ speciesDom' = [speciesDom EXCEPT !.loadingHidden = FALSE]
                /\ inFlight' = [inFlight EXCEPT !["species"] = @ + 1]
                /\ fetches' = fetches + 1
           ELSE \* callGemini returns its message, which is not JSON
                /\ apiKey' = g.key
                /\ speciesDom' = [loadingHidden |-> TRUE, html |-> ParseErrorHtml]
                /\ UNCHANGED <<inFlight, fetches>>

\* The rest of generateSpeciesProfile() once callGemini has returned.
speciesResolve(r) ==
    LET jsonStr == callGeminiFinish(r)
        data == jsonParse(stripFences(jsonStr.text))
    IN  /\ inFlight["species"] > 0
        /\ inFlight' = [inFlight EXCEPT !["species"] = @ - 1]
        /\ geminiCall' = [response |-> r, result |-> jsonStr]
        /\ last' = [op |-> "speciesResolve", pageId |-> "species"]
        /\ IF jsonStr.kind = "undefined"
           THEN \* jsonStr.replace throws outside the try: the handler
                \* stops with the loading indicator still shown
                UNCHANGED speciesDom
           ELSE IF data \in {"SyntaxError", "null"}
           THEN \* JSON.parse throws, or data.icon throws on null: caught
                speciesDom' = [loadingHidden |-> TRUE, html |-> ParseErrorHtml]
           ELSE speciesDom' = [loadingHidden |-> TRUE, html |-> [kind |-> "card", text |-> <<data>>]]
        /\ UNCHANGED <<apiKey, hiveInput, hiveDom, fetches, asks>>
        /\ UNCHANGED <<navVars, gyroVars>>

\* callGemini(prompt) called on its own, up to its fetch or its return.
callGemini(proceed, entry) ==
    LET g == callGeminiStart(apiKey, proceed, entry)
    IN  /\ asks < MaxAsks
        /\ asks' = asks + 1
        /\ last' = [op |-> "callGemini", pageId |-> "direct"]
        /\ apiKey' = g.key
        /\ UNCHANGED <<hiveInput, hiveDom, speciesDom>>
        /\ UNCHANGED <<navVars, gyroVars>>
        /\ IF g.sent
           THEN /\ inFlight' = [inFlight EXCEPT !["direct"] = @ + 1]
                /\ fetches' = fetches + 1
                /\ UNCHANGED geminiCall
           ELSE /\ geminiCall' = [response |-> NoResponse, result |-> g.result]
                /\ UNCHANGED <<inFlight, fetches>>

\* The return of a callGemini(prompt) that was called on its own.
callGeminiReturn(r) ==
    /\ inFlight["direct"] > 0
    /\ inFlight' = [inFlight EXCEPT !["direct"] = @ - 1]
    /\ geminiCall' = [response |-> r, result |-> callGeminiFinish(r)]
    /\ last' = [op |-> "callGeminiReturn", pageId |-> "direct"]
    /\ UNCHANGED <<apiKey, hiveInput, hiveDom, speciesDom, fetches, asks>>
    /\ UNCHANGED <<navVars, gyroVars>>

\* ---------------------------------------------------------- input sampler
\* the readings a deviceorientation event may carry
GammaReadings == {Null, -90, -10, 0, 10, 90}
BetaReadings == {Null, -180, 0, 40, 180}

\* a null operand of a subtraction counts as 0
ToNumber(x) == IF x = Null THEN 0 ELSE x

\* THREE.MathUtils.clamp(value, min, max)
clamp(value, min, max) ==
    IF value < min THEN min ELSE IF value > max THEN max ELSE value

\* requestMotionPermission(): the permission state and whether
\* handleOrientation is registered afterwards
requestMotionPermission ==
    /\ permissionCalls' = permissionCalls + 1
    /\ IF platform = "ios"
       THEN /\ permission' = "pending"
            /\ UNCHANGED listening
       ELSE /\ listening' = TRUE
            /\ UNCHANGED permission

\* variant: initOps stays registered
clickKeepsListener ==
    /\ clicks < MaxClicks
    /\ clicks' = clicks + 1
    /\ last' = [op |-> "click", pageId |-> "home"]
    /\ IF clickListener
       THEN /\ requestMotionPermission
            /\ UNCHANGED clickListener
       ELSE UNCHANGED <<clickListener, permissionCalls, permission, listening>>
    /\ UNCHANGED <<initialGamma, initialBeta, gyroX, gyroY, platform,
                   readings, firstReading, reading>>
    /\ UNCHANGED <<navVars, aiVars>>

\* A click anywhere on the document: initOps, while it is registered.
click ==
    /\ clicks < MaxClicks
    /\ clicks' = clicks + 1
    /\ last' = [op |-> "click", pageId |-> "home"]
    /\ IF clickListener
       THEN /\ requestMotionPermission
            /\ clickListener' = FALSE
       ELSE UNCHANGED <<clickListener, permissionCalls, permission, listening>>
    /\ UNCHANGED <<initialGamma, initialBeta, gyroX, gyroY, platform,
                   readings, firstReading, reading>>
    /\ UNCHANGED <<navVars, aiVars>>

PermissionOutcomes == {"granted", "denied", "rejected"}

\* The promise of DeviceOrientationEvent.requestPermission() settles.
permissionSettles(permissionState) ==
    /\ permission = "pending"
    /\ permission' = permissionState
    /\ listening' = (permissionState = "granted")
    /\ last' = [op |-> "permissionSettles", pageId |-> "home"]
    /\ UNCHANGED <<clickListener, initialGamma, initialBeta, gyroX, gyroY,
                   platform, permissionCalls, clicks, readings, firstReading,
                   reading>>
    /\ UNCHANGED <<navVars, aiVars>>

\* handleOrientation(event) with event.gamma = gamma, event.beta = beta.
handleOrientation(gamma, beta) ==
    LET calibrate == initialGamma = Null /\ gamma # Null
        g == gamma - ToNumber(initialGamma')
        b == beta - ToNumber(initialBeta')
    IN  /\ listening
        /\ readings < MaxReadings
        /\ readings' = readings + 1
        /\ firstReading' = IF readings = 0
                           THEN [gamma |-> gamma, beta |-> beta]
                           ELSE firstReading
        /\ reading' = [gamma |-> gamma, beta |-> beta]
        /\ initialGamma' = IF calibrate THEN gamma ELSE initialGamma
        /\ initialBeta' = IF calibrate THEN beta ELSE initialBeta
        /\ IF gamma # Null /\ beta # Null
           THEN /\ gyroX' = clamp(g * GyroDamp, -GyroLimit, GyroLimit)
                /\ gyroY' = clamp(b * GyroDamp, -GyroLimit, GyroLimit)
           ELSE UNCHANGED <<gyroX, gyroY>>
        /\ last' = [op |-> "handleOrientation", pageId |-> "home"]
        /\ UNCHANGED <<clickListener, permission, listening, platform,
                       permissionCalls, clicks>>
        /\ UNCHANGED <<navVars, aiVars>>

\* ------------------------------------------------------------ specification
Next ==
    \/ \E pageId \in PageIds : switchPage(pageId)
    \/ \E i \in 1..Len(timers) : switchPageResume(i)
    \/ \E i \in 1..Len(timers) : opacityTimeout(i)
    \/ \E i \in 1..Len(timers) : teamBeeTimeout(i)
    \/ animate

Spec == Init /\ [][Next]_vars

\* The render loop alone, started from any sampled transition state.
FrameSamples ==
    {k * (One \div SampleGrid) : k \in 0..SampleGrid}
        \cup {One, ContentPhaseMin - 1, ContentPhaseMin, ContentPhaseMin + 1,
              ClosePhaseMin - 1, ClosePhaseMin, ClosePhaseMin + 1,
              66666666, 22222222}

InitFrame ==
    /\ active = {"home-page"}
    /\ bookState \in [value : FrameSamples, target : {0, One}]
    /\ teamBeeGroup = [visible |-> FALSE]
    /\ teamBeeTimer = 0
    /\ teamBeeOpacity = 0
    /\ currentParallaxWeight = One
    /\ canvasOpacity = "1"
    /\ chrome = "home"
    /\ navHighlight = {"home"}
    /\ timers = <<>>
    /\ nextHandle = 1
    /\ calls = 0
    /\ frames = 0
    /\ scene = DerivedFrameParams(bookState.value)
    /\ InitAi
    /\ InitGyro
    /\ platform = "ios"
    /\ last = [op |-> "init", pageId |-> "home"]

NextFrame == animate

\* Clicks, the permission request and orientation readings, on either kind
\* of platform.
InitInput ==
    /\ active = {"home-page"}
    /\ bookState = [value |-> One, target |-> One]
    /\ teamBeeGroup = [visible |-> FALSE]
    /\ teamBeeTimer = 0
    /\ teamBeeOpacity = 0
    /\ currentParallaxWeight = One
    /\ canvasOpacity = "1"
    /\ chrome = "home"
    /\ navHighlight = {"home"}
    /\ timers = <<>>
    /\ nextHandle = 1
    /\ calls = 0
    /\ frames = 0
    /\ scene = [contentScale |-> One, bookRotation |-> 0,
                currentBookScale |-> BookScaleFull]
    /\ InitAi
    /\ InitGyro
    /\ platform \in Platforms
    /\ last = [op |-> "init", pageId |-> "home"]

NextInput ==
    \/ click
    \/ \E permissionState \in PermissionOutcomes : permissionSettles(permissionState)
    \/ \E gamma \in GammaReadings, beta \in BetaReadings :
          handleOrientation(gamma, beta)

SpecInput == InitInput /\ [][NextInput]_vars

\* Navigation, render loop and AI features together.
NextAi ==
    \/ \E pageId \in PageIds : calls < MaxNavCalls /\ switchPage(pageId)
    \/ \E i \in 1..Len(timers) : switchPageResume(i)
    \/ \E i \in 1..Len(timers) : opacityTimeout(i)
    \/ \E i \in 1..Len(timers) : teamBeeTimeout(i)
    \/ frames < MaxAiFrames /\ renderFrame
    \/ \E entry \in PromptEntries : manageApiKey(entry)
    \/ \E query \in {"", "q"}, proceed \in BOOLEAN, entry \in PromptEntries :
          askHiveMind(query, proceed, entry)
    \/ \E r \in Responses : hiveResolve(r)
    \/ \E proceed \in BOOLEAN, entry \in PromptEntries :
          generateSpeciesProfile(proceed, entry)
    \/ \E r \in Responses : speciesResolve(r)
    \/ \E proceed \in BOOLEAN, entry \in PromptEntries : callGemini(proceed, entry)
    \/ \E r \in Responses : callGeminiReturn(r)

SpecAi == Init /\ [][NextAi]_vars

SpecFrame == InitFrame /\ [][NextFrame]_vars

\* The render loop alone, run for many frames with the target held fixed.
NextLoop == frames < MaxSteps /\ renderFrame

SpecLoop == InitFrame /\ [][NextLoop]_vars

TypeOK ==
    /\ active \subseteq Sections
    /\ bookState.value \in 0..One
    /\ bookState.target \in {0, One}
    /\ teamBeeGroup.visible \in BOOLEAN
    /\ teamBeeTimer \in Nat
    /\ canvasOpacity \in {"1", "0.3"}
    /\ chrome \in {"home", "solid"}
    /\ calls \in 0..MaxCalls
    /\ frames \in 0..MaxFrames

\* ------------------------------------------------------------------ claims
Pending(kind) == {i \in 1..Len(timers) : timers[i].kind = kind}
PendingHandles == {timers[i].handle : i \in 1..Len(timers)}
HomeActive == "home-page" \in active
NonHomeActive == active # {} /\ ~HomeActive
\* a non-stuttering step is the step of the handler named by last'
Called(pageId) == last'.op = "switchPage" /\ last'.pageId = pageId
Resumed(pageId) == last'.op = "resume" /\ last'.pageId = pageId

\* C1: whenever no switchPage continuation is suspended, exactly one page
\* section is active, whatever pageId the calls were given.
C1_ExactlyOneActive == Pending("resume") = {} => Cardinality(active) = 1

\* C2: a pending team bee timeout exists only while the team page is active
\* (leaving team cancels the one its entry armed, so it never fires), and the
\* flag turns true only by that timeout running while team is active.
C2_LeftTeamNeverActivates ==
    /\ [](Pending("teamBee") # {} => "team" \in active)
    /\ [][(teamBeeGroup'.visible /\ ~teamBeeGroup.visible)
            => /\ last'.op = "teamBeeTimeout"
               /\ "team" \in active
               /\ "team" \in active']_vars

\* home -> team -> home navigated twice: both timeouts cancelled, flag off
C2_Witness ==
    /\ calls = 4
    /\ last = [op |-> "switchPage", pageId |-> "home"]
    /\ teamBeeTimer = 6
    /\ Pending("teamBee") = {}
    /\ ~teamBeeGroup.visible
    /\ active = {"home-page"}

\* C3: at most one team bee timeout is pending, and it is the one
\* teamBeeTimer refers to.
C3_AtMostOnePending ==
    /\ Cardinality(Pending("teamBee")) <= 1
    /\ \A i \in Pending("teamBee") : timers[i].handle = teamBeeTimer

\* team entered again while the first entry's timeout (handle 3) was pending
C3_Witness ==
    /\ calls = 2
    /\ teamBeeTimer = 5
    /\ {2, 5} \subseteq PendingHandles
    /\ 3 \notin PendingHandles

\* C4: the step in which team stops being active leaves the flag false and
\* no team bee timeout pending.
C4_LeaveClearsAndCancels ==
    [][("team" \in active /\ "team" \notin active')
         => (~teamBeeGroup'.visible /\ Pending("teamBee")' = {})]_vars

\* the bees had been shown (a frame faded them in) and team was then left
C4_Witness ==
    /\ teamBeeOpacity > 0
    /\ ~teamBeeGroup.visible
    /\ "team" \notin active
    /\ last.op = "switchPage"

\* C5 as stated: the call from home to a non-home page sets target to 0 and
\* leaves home active, and home is active for as long as a continuation waits.
C5_Original ==
    /\ [](Pending("resume") # {} => HomeActive)
    /\ [][(last'.op = "switchPage" /\ last'.pageId # "home" /\ HomeActive)
            => (bookState'.target = 0 /\ active' = active)]_vars

\* C5 amended: the call sets target to 0, leaves value and the active page
\* alone and arms its continuation; the active page then changes only by a
\* page swap of switchPage (never by a frame or another timeout); the
\* continuation makes the destination active; frames stay enabled meanwhile.
C5_CloseThenSwap ==
    /\ [][(last'.op = "switchPage" /\ last'.pageId # "home" /\ HomeActive)
            => /\ bookState'.target = 0
               /\ bookState'.value = bookState.value
               /\ active' = active
               /\ \E i \in Pending("resume")' :
                     /\ timers'[i].pageId = last'.pageId
                     /\ timers'[i].handle \notin PendingHandles]_vars
    /\ [][active' # active => last'.op \in {"switchPage", "resume"}]_vars
    /\ [][(last'.op = "resume" /\ last'.pageId \in Sections)
            => active' = {last'.pageId}]_vars
    /\ []((Pending("resume") # {} /\ frames < MaxFrames) => ENABLED animate)

\* a frame has advanced value while the continuation is still waiting
C5_Witness ==
    /\ calls = 1
    /\ Pending("resume") # {}
    /\ HomeActive
    /\ bookState.target = 0
    /\ bookState.value < One
    /\ last.op = "animate"

\* C6: switchPage('home') from a non-home page sets target to 1, makes home
\* the active page and restores the home chrome, all in the call itself.
C6_EnterHomeAtOnce ==
    [][(Called("home") /\ NonHomeActive)
         => /\ bookState'.target = One
            /\ active' = {"home-page"}
            /\ canvasOpacity' = "1"
            /\ chrome' = "home"
            /\ Pending("resume")' = Pending("resume")]_vars

\* home was re-entered from hive while hive's opacity timeout was pending
C6_Witness ==
    /\ calls = 2
    /\ last = [op |-> "switchPage", pageId |-> "home"]
    /\ \E i \in Pending("opacity") : timers[i].pageId = "hive"
    /\ bookState.target = One
    /\ active = {"home-page"}
    /\ chrome = "home"

\* C7: switchPage(p) for a page p other than home, from a non-home page,
\* makes p active in the call itself, arms no wait and leaves bookState alone.
C7_NonHomeSwapAtOnce ==
    [][(last'.op = "switchPage" /\ last'.pageId \in Sections /\ NonHomeActive)
         => /\ active' = {last'.pageId}
            /\ bookState' = bookState
            /\ {timers'[i].handle : i \in Pending("resume")'}
                  \subseteq PendingHandles]_vars

\* hive -> team directly, with the book reopening behind the page
C7_Witness ==
    /\ last = [op |-> "switchPage", pageId |-> "team"]
    /\ active = {"team"}
    /\ bookState.target = One
    /\ \E i \in Pending("opacity") : timers[i].pageId = "hive"

\* C8: a switchPage whose pageId matches no section changes neither the
\* active page, nor the target, nor the flag, nor the timer.
C8_UnknownPageNoOp ==
    [][(last'.op \in {"switchPage", "resume"} /\ TargetId(last'.pageId) \notin Sections)
         => /\ active' = active
            /\ bookState'.target = bookState.target
            /\ teamBeeGroup' = teamBeeGroup
            /\ teamBeeTimer' = teamBeeTimer
            /\ {timers'[i].handle : i \in Pending("teamBee")'}
                  = {timers[i].handle : i \in Pending("teamBee")}]_vars

\* C9: target is 0 or 1, value lies in [0,1], and both are 1 initially.
C9_TransitionStateRange ==
    /\ bookState.target \in {0, One}
    /\ bookState.value \in 0..One
    /\ last.op = "init" => (bookState.value = One /\ bookState.target = One)

\* the book is part-way and has been told to reopen
C9_Witness ==
    /\ bookState.value > 0
    /\ bookState.value < One
    /\ bookState.target = One
    /\ frames >= 2

\* C10: value changes only in a render frame, which leaves it between its
\* old value and the target, and leaves it alone when it equals the target.
C10_ValueOnlyAdvanced ==
    /\ [][bookState'.value # bookState.value
            => /\ last'.op = "animate"
               /\ bookState'.target = bookState.target
               /\ \/ bookState.value < bookState'.value
                        /\ bookState'.value <= bookState.target
                  \/ bookState.target <= bookState'.value
                        /\ bookState'.value < bookState.value]_vars
    /\ [][(last'.op = "animate" /\ bookState.value = bookState.target)
            => bookState'.value = bookState.value]_vars

\* a frame has moved value part of the way toward a target of 0
C10_Witness ==
    /\ last.op = "animate"
    /\ bookState.target = 0
    /\ bookState.value > 0
    /\ bookState.value < One

\* C11: a frame replaces value by value + (target - value) * rate, with
\* rate 0.10 when target < value and 0.05 otherwise.
C11_UpdateRule ==
    [][last'.op = "animate"
         => bookState'.value =
               IF bookState.target < bookState.value
               THEN bookState.value
                      - (((bookState.value - bookState.target) * 10) \div 100)
               ELSE bookState.value
                      + (((bookState.target - bookState.value) * 5) \div 100)]_vars

\* one opening frame from 0.6: 0.6 + 0.4 * 0.05 = 0.62
C11_Witness ==
    /\ last.op = "animate"
    /\ frames = 1
    /\ bookState.target = One
    /\ bookState.value = 62000000

\* C12: after a frame the derived parameters equal the three-phase table of
\* value, and lie in [0,1], [0,1.57] and [0,1.4].
C12_ThreePhaseTable ==
    last.op = "animate" =>
      LET v == bookState.value
      IN  /\ v > 60000000 =>
                scene = [contentScale |-> ((v - 60000000) * 10) \div 4,
                         bookRotation |-> 0,
                         currentBookScale |-> 140000000]
          /\ (v > 20000000 /\ v <= 60000000) =>
                scene = [contentScale |-> 0,
                         bookRotation |->
                            ((100000000 - (((v - 20000000) * 10) \div 4)) \div 100) * 157,
                         currentBookScale |-> 140000000]
          /\ v <= 20000000 =>
                scene = [contentScale |-> 0,
                         bookRotation |-> 157000000,
                         currentBookScale |-> (v * 5 * 14) \div 10]
          /\ scene.contentScale \in 0..100000000
          /\ scene.bookRotation \in 0..157000000
          /\ scene.currentBookScale \in 0..140000000

\* one closing frame from 0.6 gives 0.54: hinge (1 - 0.34/0.4) * 1.57 = 0.2355
C12_Witness ==
    /\ last.op = "animate"
    /\ bookState.value = 54000000
    /\ scene = [contentScale |-> 0, bookRotation |-> 23550000,
                currentBookScale |-> BookScaleFull]

\* C13: at value 0.6 and at value 0.2 the parameters a frame writes equal
\* the formulas of both adjoining phases, and nowhere do the parameters of
\* two neighbouring values differ by more than 2e-6.
C13_ContinuousAtBoundaries ==
    LET v == bookState.value
        Gap(a, b) == IF a < b THEN b - a ELSE a - b
        Near(p, q) == /\ Gap(p.contentScale, q.contentScale) <= 200
                      /\ Gap(p.bookRotation, q.bookRotation) <= 200
                      /\ Gap(p.currentBookScale, q.currentBookScale) <= 200
    IN  /\ (last.op = "animate" /\ v = ContentPhaseMin)
              => (scene = ContentPhase(v) /\ scene = ClosePhase(v))
        /\ (last.op = "animate" /\ v = ClosePhaseMin)
              => (scene = ClosePhase(v) /\ scene = VanishPhase(v))
        /\ v < One => Near(DerivedFrameParams(v), DerivedFrameParams(v + 1))

\* a closing frame has landed exactly on the boundary 0.2
C13_Witness ==
    /\ last.op = "animate"
    /\ bookState.value = ClosePhaseMin
    /\ scene.bookRotation = HingeClosed
    /\ scene.currentBookScale = BookScaleFull

\* C20: content showing implies the book is open and full size; a book not
\* fully closed is full size.
C20_StrictSequencing ==
    /\ scene.contentScale > 0
          => (scene.bookRotation = 0 /\ scene.currentBookScale = BookScaleFull)
    /\ scene.bookRotation < HingeClosed
          => scene.currentBookScale = BookScaleFull

\* the book is fully closed and has started to shrink
C20_Witness ==
    /\ last.op = "animate"
    /\ scene.contentScale = 0
    /\ scene.bookRotation = HingeClosed
    /\ scene.currentBookScale > 0
    /\ scene.currentBookScale < BookScaleFull

\* the distance of value from target, and n smoothing steps from (v, t)
Distance == IF bookState.value < bookState.target
            THEN bookState.target - bookState.value
            ELSE bookState.value - bookState.target
Half == One \div 2
RECURSIVE Iterate(_, _, _)
Iterate(v, t, n) == IF n <= 0 THEN v ELSE Iterate(Lerp(v, t), t, n - 1)

\* C14 as stated: after 200 or more frames with the target held fixed,
\* |value - target| < 1e-6.
C14_Original == frames >= 200 => Distance < 100

\* C14 amended: after 200 or more frames |value - target| < 1e-4, and
\* < 1e-6 when the target is 0 (closing).
C14_Converges ==
    frames >= 200 =>
        /\ Distance < 10000
        /\ bookState.target = 0 => Distance < 100

\* 200 opening frames from 0 leave value between 1e-6 and 1e-4 short of 1
C14_Witness ==
    /\ frames = 200
    /\ bookState.target = One
    /\ bookState.value = 99996484
    /\ Distance > 100
    /\ Distance < 10000

\* C15: whenever opening from 0 has passed 0.5 after n frames, closing from 1
\* was already below 0.5 after n - 1 frames (n up to 20; opening passes 0.5
\* in its 14th frame).
C15_ClosingFaster ==
    (/\ bookState.target = One
     /\ frames <= 20
     /\ bookState.value > Half
     /\ bookState.value = Iterate(0, One, frames))
        => Iterate(One, 0, frames - 1) < Half

\* the frame in which opening from 0 first passes 0.5 (the 14th); closing
\* from 1 first went below 0.5 in its 7th
C15_Witness ==
    /\ bookState.target = One
    /\ frames = 14
    /\ bookState.value = Iterate(0, One, 14)
    /\ bookState.value > Half
    /\ Iterate(0, One, 13) <= Half
    /\ Iterate(One, 0, 7) < Half
    /\ Iterate(One, 0, 6) >= Half

\* ---------------------------------------------------------- AI claims
Outstanding == inFlight["hive"] + inFlight["species"] + inFlight["direct"]
\* a step that is an invocation of one of the two AI features, askHiveMind
\* with a question typed in
FeatureInvoked ==
    /\ asks' = asks + 1
    /\ \/ last'.op = "askHiveMind" /\ hiveInput' # ""
       \/ last'.op = "generateSpeciesProfile"
NotConfiguredShown ==
    \/ hiveDom'.html = markedParse(NotConfigured.text) /\ ~hiveDom'.outputHidden
    \/ speciesDom'.html.text = NotConfigured.text

\* C16 as stated: with no key stored, invoking either feature issues no
\* network call and shows an inline "not configured" message.
C16_Original ==
    [][(apiKey = "" /\ FeatureInvoked)
         => (fetches' = fetches /\ NotConfiguredShown)]_vars

\* C16: no request is ever issued while the stored key is empty; a feature
\* invoked with no key stored asks the user for one and, unless a key is
\* stored by that dialogue, issues no request and leaves the page as it was
\* (no loading indicator, no inline message); callGemini called on its own
\* with no key returns the "not configured" string without a request.
C16_NoKeyNoCall ==
    /\ [][fetches' # fetches => apiKey' # ""]_vars
    /\ [][(apiKey = "" /\ FeatureInvoked /\ apiKey' = "")
            => /\ fetches' = fetches
               /\ inFlight' = inFlight
               /\ hiveDom' = hiveDom
               /\ speciesDom' = speciesDom]_vars
    /\ [][(apiKey = "" /\ last'.op = "callGemini" /\ apiKey' = "")
            => /\ fetches' = fetches
               /\ geminiCall'.result = NotConfigured]_vars

\* a question asked with no key, the dialogue declined: nothing happened
C16_Witness ==
    /\ last.op = "askHiveMind"
    /\ hiveInput = "q"
    /\ apiKey = ""
    /\ asks = 1
    /\ fetches = 0
    /\ hiveDom.html = InitialHtml
    /\ hiveDom.loadingHidden

\* C17: callGemini never raises; every invocation issues at most one request
\* and a failed request is not repeated; a transport failure and every
\* non-2xx status, whatever its body, give the error string; a 2xx answer
\* carrying a text gives that text.
C17_NeverRaises ==
    /\ fetches <= asks
    /\ Outstanding <= fetches
    /\ geminiCall.result.kind # "raised"
    /\ geminiCall.response.type \in {"networkError", "http"}
         => geminiCall.result.kind = "error"
    /\ (geminiCall.response.type = "ok" /\ geminiCall.response.body = "text")
         => geminiCall.result = [kind |-> "text",
                                 text |-> geminiCall.response.text]

\* a 403 whose body is not JSON came back as the error string, one request
C17_Witness ==
    /\ geminiCall.response.type = "http"
    /\ geminiCall.response.status = "403"
    /\ ~geminiCall.response.jsonBody
    /\ geminiCall.result.kind = "error"
    /\ last.op = "callGeminiReturn"
    /\ fetches = 1
    /\ Outstanding = 0

\* C18: once generateSpeciesProfile has handled the result of the text
\* service, the loading indicator is hidden; a fenced JSON object has been
\* unwrapped, parsed and put into the card; a result that is not JSON has
\* given the inline error.
C18_StructuredMode ==
    last.op = "speciesResolve"
      => /\ speciesDom.loadingHidden
         /\ (geminiCall.result.kind = "text" /\ geminiCall.result.text
                = <<"FENCE", "json", "NL", "{obj}", "NL", "FENCE">>)
              => speciesDom.html = [kind |-> "card", text |-> <<"{obj}">>]
         /\ (geminiCall.result.kind = "error"
               \/ geminiCall.result.text = <<"prose">>)
              => speciesDom.html = ParseErrorHtml

AiOps ==
    {"askHiveMind", "hiveResolve", "generateSpeciesProfile", "speciesResolve",
     "callGemini", "callGeminiReturn"}

\* C19: no step of an AI feature changes value, target, the active page,
\* the flag or the timer, whatever the result and whatever page is active
\* when it resolves; and a frame of the render loop can run in every state
\* where a request is outstanding.
C19_AiLeavesNavigation ==
    /\ [][last'.op \in AiOps
            => /\ bookState' = bookState
               /\ active' = active
               /\ teamBeeGroup' = teamBeeGroup
               /\ teamBeeTimer' = teamBeeTimer]_vars
    /\ [](Outstanding > 0 => ENABLED renderFrame)

\* a question resolved with a failure after the user went on to the team
\* page and a frame ran: team still active, book still closing
C19_Witness ==
    /\ last.op = "hiveResolve"
    /\ geminiCall.result.kind = "error"
    /\ active = {"team"}
    /\ frames = 1
    /\ bookState.target = 0
    /\ ~hiveDom.outputHidden

\* ------------------------------------------------- input sampler claims
\* C21: requestMotionPermission is called by the first click and by no
\* other, so exactly once however many clicks follow; once the permission is
\* denied handleOrientation is never registered, no reading is handled and
\* gyroX, gyroY stay 0.
C21_PermissionOnce ==
    /\ permissionCalls = IF clicks = 0 THEN 0 ELSE 1
    /\ clickListener <=> clicks = 0
    /\ permission \in {"denied", "rejected"}
         => /\ ~listening
            /\ readings = 0
            /\ gyroX = 0
            /\ gyroY = 0

\* two clicks, one request, denied: not listening
C21_Witness ==
    /\ clicks = 2
    /\ permissionCalls = 1
    /\ permission = "denied"
    /\ ~listening
    /\ last.op = "click"

\* C22: from the first reading on, the baseline is set and is that
\* reading's gamma and beta; after every later reading that carries a gamma
\* and a beta, gyroX and gyroY are the damped differences from that
\* baseline, clamped; gyroX and gyroY are always within [-3, 3].
C22_BaselineAndClamp ==
    /\ readings >= 1
         => /\ initialGamma # Null
            /\ initialBeta # Null
            /\ initialGamma = firstReading.gamma
            /\ initialBeta = firstReading.beta
    /\ (readings >= 2 /\ reading.gamma # Null /\ reading.beta # Null)
         => /\ gyroX = clamp((reading.gamma - firstReading.gamma) * 5, -300, 300)
            /\ gyroY = clamp((reading.beta - firstReading.beta) * 5, -300, 300)
    /\ gyroX \in -300..300
    /\ gyroY \in -300..300

\* ---------------------------------------------------- navigation races
\* C23: whenever no switchPage continuation is suspended and some page is
\* active, target is 1 exactly when home is the active page and 0 exactly
\* when a page other than home is.
C23_TargetAgrees ==
    (Pending("resume") = {} /\ active # {})
        => /\ bookState.target = One <=> HomeActive
           /\ bookState.target = 0 <=> NonHomeActive

\* C24: when home is the active page and no timeout or continuation is
\* pending, the canvas opacity is 1.
C24_HomeCanvasBright ==
    (HomeActive /\ timers = <<>>) => canvasOpacity = "1"

\* C25: the flag teamBeeGroup.visible is true only while team is the active
\* page.
C25_FlagOnlyOnTeam == teamBeeGroup.visible => active = {"team"}

\* team entered from home, left and entered again: the bees shown by the
\* timeout of the second entry, team active
C25_Witness ==
    /\ teamBeeGroup.visible
    /\ active = {"team"}
    /\ last.op = "teamBeeTimeout"
    /\ calls = 3
    /\ timers = <<>>
====
